---- MODULE Spec2Model ----
(***************************************************************************)
(* Browser verification scripts of the repository (src/verify_toast.py and *)
(* src/verification/verify_*.py) as one state machine.  A run executes one *)
(* script; the program counter pc is the source line of the statement that *)
(* runs next.  Every browser call may succeed or raise; Python's try /      *)
(* except / finally and the `with sync_playwright()` block decide where     *)
(* control goes then.                                                       *)
(***************************************************************************)
EXTENDS Integers, Sequences, FiniteSets, TLC

\* Granularity of the model clock: one poll of a wait every TickMs milliseconds.
TickMs == 2500

\* Timeout of a wait that passes none (the automation library's default).
DefaultTimeoutMs == 30000

\* Most console and pageerror events the page emits during one run.
MaxEvents == 2

\* pc after `return` or after the last statement of the script.
END == 0
\* pc while an exception propagates out of the script.
RAISED == 0 - 1

NoErr == [kind |-> "none", line |-> 0]

NoStep ==
    [line |-> 0, op |-> "none", arg |-> "", res |-> "none", tmo |-> 0, el |-> 0,
     seen |-> FALSE,
     elem |-> "absent"]

Scripts == {"csp", "drag_drop", "messgeraet", "settings", "stromkreis", "toast"}

ElemStates == {"absent", "hidden", "visible"}

----------------------------------------------------------------------------
(* Instructions.  op: the call; arg: its selector, path or condition;      *)
(* tmo: timeout or delay in ms; ok: next line on success; alt: next line   *)
(* when a query returns False; err and mode: where a raised error goes     *)
(* ("raise": out of the script; "catch": to the line after an except block *)
(* that swallows it, or into the except block when that block has a        *)
(* statement; "finally": to a finally block, the error pending); hnd: the  *)
(* statement is inside an except block.                                     *)

Plain(op, arg, ok) ==
    [op |-> op, arg |-> arg, tmo |-> 0, ok |-> ok, alt |-> ok,
     err |-> RAISED, mode |-> "raise", hnd |-> FALSE]

Timed(op, arg, tmo, ok) == [Plain(op, arg, ok) EXCEPT !.tmo = tmo]

InTry(ins, err, mode) == [ins EXCEPT !.err = err, !.mode = mode]

Branch(ins, alt) == [ins EXCEPT !.alt = alt]

Handler(ins) == [ins EXCEPT !.hnd = TRUE]

\* ---- src/verification/verify_csp.py ----
CspSetup ==
       (6 :> Plain("launch", "chromium", 7))
    @@ (7 :> Plain("new_page", "", 10))
    @@ (10 :> Plain("on", "console", 11))
    @@ (11 :> Plain("on", "pageerror", 19))

\* try body, lines 18-32; `except Exception` (33-34) only prints, then finally.
CspTry ==
       (19 :> InTry(Plain("goto", "index.html", 21), 36, "catch"))
    @@ (21 :> InTry(Timed("wait_for_timeout", "", 3000, 24), 36, "catch"))
    @@ (24 :> InTry(Plain("evaluate", "typeof XLSX", 28), 36, "catch"))
    @@ (28 :> InTry(Plain("count", "meta[csp]", 32), 36, "catch"))
    @@ (32 :> InTry(Plain("screenshot", "verification/csp_check.png", 36), 36, "catch"))

CspFinally == (36 :> Plain("close", "", END))

CspProg == CspSetup @@ CspTry @@ CspFinally

\* ---- src/verification/verify_drag_drop.py ----
DragDropSetup ==
       (7 :> Plain("launch", "chromium", 8))
    @@ (8 :> Plain("new_page", "", 10))
    @@ (10 :> Plain("on", "console", 11))
    @@ (11 :> Plain("on", "pageerror", 14))
    @@ (14 :> Plain("goto", "index.html", 17))
    @@ (17 :> Timed("wait_for_load_state", "networkidle", DefaultTimeoutMs, 21))
    @@ (21 :> Plain("click", "a[href='#workflow']", 24))
    @@ (24 :> Timed("wait_for_timeout", "", 500, 31))

\* Mutant: the except block has no return.
DragDropWaitFallsThrough ==
       (31 :> InTry(Timed("wait_for", "#file-drop-zone", 5000, 38), 34, "catch"))
    @@ (34 :> Handler(Plain("screenshot", "verification/debug_fail.png", 38)))

\* try (30-31) / except (32-35): screenshot, then return.
DragDropWait ==
       (31 :> InTry(Timed("wait_for", "#file-drop-zone", 5000, 38), 34, "catch"))
    @@ (34 :> Handler(Plain("screenshot", "verification/debug_fail.png", END)))

\* Mutant: the browser is closed before the tabindex evaluate.
DragDropBodyCloseEarly ==
       (38 :> Plain("locator_screenshot", "verification/normal_state.png", 41))
    @@ (41 :> Plain("evaluate", "dispatch dragenter", 48))
    @@ (48 :> Plain("locator_screenshot", "verification/drag_over_state.png", 51))
    @@ (51 :> Plain("evaluate", "contains drag-over", 58))
    @@ (58 :> Plain("close", "", 55))
    @@ (55 :> Plain("evaluate", "getAttribute tabindex", END))

DragDropBody ==
       (38 :> Plain("locator_screenshot", "verification/normal_state.png", 41))
    @@ (41 :> Plain("evaluate", "dispatch dragenter", 48))
    @@ (48 :> Plain("locator_screenshot", "verification/drag_over_state.png", 51))
    @@ (51 :> Plain("evaluate", "contains drag-over", 55))
    @@ (55 :> Plain("evaluate", "getAttribute tabindex", 58))
    @@ (58 :> Plain("close", "", END))

DragDropProg == DragDropSetup @@ DragDropWait @@ DragDropBody

\* ---- src/verification/verify_messgeraet.py ----
MessgeraetProg ==
       (6 :> Plain("launch", "chromium", 7))
    @@ (7 :> Plain("new_page", "", 10))
    @@ (10 :> Plain("goto", "index.html", 13))
    @@ (13 :> Timed("wait_for_selector", ".sidebar", DefaultTimeoutMs, 21))
    @@ (21 :> Plain("click", "a[data-view=messgeraet]", 25))
    @@ (25 :> Timed("wait_for_selector", ".messgeraet-module", DefaultTimeoutMs, 28))
    @@ (28 :> Timed("sleep", "", 1000, 31))
    @@ (31 :> Plain("screenshot", "verification/messgeraet_list.png", 35))
    @@ (35 :> Plain("click", "button[add]", 38))
    @@ (38 :> Timed("wait_for_selector", "#messgeraetFormModal.modal.is-open",
                    DefaultTimeoutMs, 39))
    @@ (39 :> Timed("sleep", "", 500, 42))
    @@ (42 :> Plain("screenshot", "verification/messgeraet_modal.png", 45))
    @@ (45 :> Plain("close", "", END))

\* ---- src/verification/verify_settings.py ----
SettingsSetup ==
       (24 :> Plain("launch", "chromium", 25))
    @@ (25 :> Plain("new_page", "", 4))

\* Mutant: the capture is taken before the two visibility waits.
SettingsBodyCaptureFirst ==
       (4 :> InTry(Plain("goto", "index.html", 7), 29, "finally"))
    @@ (7 :> InTry(Plain("click", "a[href='#settings']", 11), 29, "finally"))
    @@ (11 :> InTry(Plain("click", "text=Mit Server synchronisieren", 21), 29, "finally"))
    @@ (21 :> InTry(Plain("screenshot", "verification/settings.png", 15), 29, "finally"))
    @@ (15 :> InTry(Timed("wait_for", "#api-config-section", DefaultTimeoutMs, 18),
                    29, "finally"))
    @@ (18 :> InTry(Timed("wait_for", "#api-base-url", DefaultTimeoutMs, 29),
                    29, "finally"))

\* verify_settings(page), called inside try (26-27) with finally (28-29).
SettingsBody ==
       (4 :> InTry(Plain("goto", "index.html", 7), 29, "finally"))
    @@ (7 :> InTry(Plain("click", "a[href='#settings']", 11), 29, "finally"))
    @@ (11 :> InTry(Plain("click", "text=Mit Server synchronisieren", 15), 29, "finally"))
    @@ (15 :> InTry(Timed("wait_for", "#api-config-section", DefaultTimeoutMs, 18),
                    29, "finally"))
    @@ (18 :> InTry(Timed("wait_for", "#api-base-url", DefaultTimeoutMs, 21),
                    29, "finally"))
    @@ (21 :> InTry(Plain("screenshot", "verification/settings.png", 29), 29, "finally"))

SettingsFinally == (29 :> Plain("close", "", END))

SettingsProg == SettingsSetup @@ SettingsBody @@ SettingsFinally

\* ---- src/verification/verify_stromkreis.py ----
StromkreisSetup ==
       (75 :> Plain("launch", "chromium", 76))
    @@ (76 :> Plain("new_page", "", 5))

\* Mutant: the risoOhne input is filled whatever is_visible returned.
StromkreisBodyUnguarded ==
       (5 :> InTry(Plain("goto", "test-editable-stromkreise.html", 8), 81, "catch"))
    @@ (8 :> InTry(Timed("wait_for_selector", ".positions-table", DefaultTimeoutMs, 11),
                   81, "catch"))
    @@ (11 :> InTry(Timed("wait_for_selector", "tr.position-row", 10000, 17), 81, "catch"))
    @@ (17 :> InTry(Plain("is_visible", "risoOhne", 19), 81, "catch"))
    @@ (19 :> InTry(Plain("fill", "risoOhne", 25), 81, "catch"))
    @@ (25 :> InTry(Plain("is_visible", "risoMit", 32), 81, "catch"))
    @@ (32 :> InTry(Branch(Plain("is_visible", "kabel.typ", 34), 39), 81, "catch"))
    @@ (34 :> InTry(Plain("fill", "kabel.typ", 39), 81, "catch"))
    @@ (39 :> InTry(Plain("screenshot", "verification/verification.png", 83), 81, "catch"))

\* verify_stromkreis(page), called inside try (77-78) with except (79-81).
StromkreisBody ==
       (5 :> InTry(Plain("goto", "test-editable-stromkreise.html", 8), 81, "catch"))
    @@ (8 :> InTry(Timed("wait_for_selector", ".positions-table", DefaultTimeoutMs, 11),
                   81, "catch"))
    @@ (11 :> InTry(Timed("wait_for_selector", "tr.position-row", 10000, 17), 81, "catch"))
    @@ (17 :> InTry(Branch(Plain("is_visible", "risoOhne", 19), 25), 81, "catch"))
    @@ (19 :> InTry(Plain("fill", "risoOhne", 25), 81, "catch"))
    @@ (25 :> InTry(Plain("is_visible", "risoMit", 32), 81, "catch"))
    @@ (32 :> InTry(Branch(Plain("is_visible", "kabel.typ", 34), 39), 81, "catch"))
    @@ (34 :> InTry(Plain("fill", "kabel.typ", 39), 81, "catch"))
    @@ (39 :> InTry(Plain("screenshot", "verification/verification.png", 83), 81, "catch"))

\* Mutant: the except block ends the run after its capture.
StromkreisHandlerEnds ==
    (81 :> Handler(Plain("screenshot", "verification/error.png", 88)))

StromkreisHandler ==
    (81 :> Handler(Plain("screenshot", "verification/error.png", 83)))

StromkreisContext ==
       (83 :> Plain("new_context", "1280x720", 84))
    @@ (84 :> Plain("new_page", "", 44))

\* verify_table(page), called inside try (85-86) with finally (87-88).
TableBody ==
       (44 :> InTry(Plain("goto", "test-stromkreise-final.html", 48), 88, "finally"))
    @@ (48 :> InTry(Timed("wait_for_selector", ".positions-table", DefaultTimeoutMs, 51),
                    88, "finally"))
    @@ (51 :> InTry(Timed("wait_for_timeout", "", 1000, 55), 88, "finally"))
    @@ (55 :> InTry(Plain("screenshot", "stromkreis_table_left.png", 63), 88, "finally"))
    @@ (63 :> InTry(Plain("evaluate", "scrollLeft = 200", 64), 88, "finally"))
    @@ (64 :> InTry(Timed("wait_for_timeout", "", 500, 65), 88, "finally"))
    @@ (65 :> InTry(Plain("screenshot", "stromkreis_table_scrolled_200.png", 69),
                    88, "finally"))
    @@ (69 :> InTry(Plain("evaluate", "scrollLeft = 500", 70), 88, "finally"))
    @@ (70 :> InTry(Timed("wait_for_timeout", "", 500, 71), 88, "finally"))
    @@ (71 :> InTry(Plain("screenshot", "stromkreis_table_scrolled_500.png", 88),
                    88, "finally"))

StromkreisFinally == (88 :> Plain("close", "", END))

StromkreisProg ==
    StromkreisSetup @@ StromkreisBody @@ StromkreisHandler @@ StromkreisContext
        @@ TableBody @@ StromkreisFinally

\* ---- src/verify_toast.py ----
ToastSetup ==
       (6 :> Plain("launch", "chromium", 7))
    @@ (7 :> Plain("new_page", "", 8))
    @@ (8 :> Plain("goto", "index.html", 11))
    @@ (11 :> Timed("wait_for_load_state", "networkidle", DefaultTimeoutMs, 15))
    @@ (15 :> Plain("evaluate", "import handlers.js", 26))

\* try (25-28) / except (29-30): the handler only prints.
\* Mutant: each wait has a try block of its own.
ToastWaitsSeparate ==
       (26 :> InTry(Timed("wait_for_selector", ".toast--error", 5000, 27), 27, "catch"))
    @@ (27 :> InTry(Timed("wait_for_selector", ".toast--success", 5000, 33), 33, "catch"))

\* Mutant: the except block retries the first wait.
ToastWaitsRetry ==
       (26 :> InTry(Timed("wait_for_selector", ".toast--error", 5000, 27), 26, "catch"))
    @@ (27 :> InTry(Timed("wait_for_selector", ".toast--success", 5000, 33), 33, "catch"))

ToastWaits ==
       (26 :> InTry(Timed("wait_for_selector", ".toast--error", 5000, 27), 33, "catch"))
    @@ (27 :> InTry(Timed("wait_for_selector", ".toast--success", 5000, 33), 33, "catch"))

ToastTail ==
       (33 :> Plain("screenshot", "verification_toast.png", 35))
    @@ (35 :> Plain("close", "", END))

ToastProg == ToastSetup @@ ToastWaits @@ ToastTail

Prog(s) ==
    CASE s = "csp" -> CspProg
      [] s = "drag_drop" -> DragDropProg
      [] s = "messgeraet" -> MessgeraetProg
      [] s = "settings" -> SettingsProg
      [] s = "stromkreis" -> StromkreisProg
      [] s = "toast" -> ToastProg

\* Line of the first statement that runs (the browser launch).
Entry(s) ==
    CASE s = "csp" -> 6
      [] s = "drag_drop" -> 7
      [] s = "messgeraet" -> 6
      [] s = "settings" -> 24
      [] s = "stromkreis" -> 75
      [] s = "toast" -> 6

\* The scenario a statement belongs to: one per script, two in verify_stromkreis.
Scenario(s, line) ==
    IF s = "stromkreis"
    THEN IF line \in DOMAIN StromkreisBody \cup DOMAIN StromkreisHandler
         THEN "verify_stromkreis"
         ELSE IF line \in DOMAIN TableBody THEN "verify_table" ELSE "main"
    ELSE s

----------------------------------------------------------------------------
VARIABLES
    script,      \* the script this run executes
    pc,          \* source line of the next statement, END or RAISED
    status,      \* "run" until the with-block is left, then "done"
    browser,     \* "none", "open" or "closed"
    closeCalls,  \* number of browser.close() calls made
    pending,     \* error in flight while a finally block runs
    caught,      \* errors an except block has caught, in order
    exc,         \* error propagating out of the script
    exit,        \* process exit status, -1 while running
    log,         \* the statements executed, in order, with their results
    last,        \* the statement executed last, with what it observed
    files,       \* paths of the screenshots written
    elapsed,     \* polls made by the wait or delay in progress
    seen,        \* the condition of the wait in progress held at one of its polls
    elem,        \* state of the element the current selector resolves to
    idle,        \* the page has no request in flight
    pwStopped,   \* the sync_playwright() context manager has exited
    diag         \* what the console and pageerror callbacks have printed, in order

vars == <<script, pc, status, browser, closeCalls, pending, caught, exc, exit,
          log, last, files, elapsed, seen, elem, idle, pwStopped, diag>>

Init ==
    /\ script \in Scripts
    /\ pc = Entry(script)
    /\ status = "run"
    /\ browser = "none"
    /\ closeCalls = 0
    /\ pending = NoErr
    /\ caught = <<>>
    /\ exc = NoErr
    /\ exit = 0 - 1
    /\ log = <<>>
    /\ last = NoStep
    /\ files = {}
    /\ elapsed = 0
    /\ seen = FALSE
    /\ elem \in ElemStates
    /\ idle \in BOOLEAN
    /\ pwStopped = FALSE
    /\ diag = <<>>

Running == status = "run" /\ pc \in DOMAIN Prog(script)

Cur == Prog(script)[pc]

ElapsedMs == elapsed * TickMs

WaitOps == {"wait_for_selector", "wait_for", "wait_for_load_state"}

DelayOps == {"wait_for_timeout", "sleep"}

CaptureOps == {"screenshot", "locator_screenshot"}

\* The page renders asynchronously: between any two statements, and between
\* two polls, the DOM and the network state may change.
PageMoves == elem' \in ElemStates /\ idle' \in BOOLEAN

\* The condition a wait polls: network idle, or the selector's first element
\* visible (wait_for_selector and wait_for(state="visible")).
CondHolds(ins) ==
    IF ins.op = "wait_for_load_state" THEN idle ELSE elem = "visible"

\* What the trace keeps of an executed statement.
Executed(ins, res) ==
    [line |-> pc, op |-> ins.op, res |-> res, sess |-> browser, hnd |-> ins.hnd,
     scen |-> Scenario(script, pc)]

\* What the statement executed last observed: the time it took, whether its
\* condition held at a poll, and the state of the element it resolved.
Observed(ins, res) ==
    [line |-> pc, op |-> ins.op, arg |-> ins.arg, res |-> res, tmo |-> ins.tmo,
     el |-> ElapsedMs,
     seen |-> seen \/ (ins.op \in WaitOps /\ ElapsedMs < ins.tmo /\ CondHolds(ins)),
     elem |-> elem]

Logged(ins, res) ==
    /\ log' = Append(log, Executed(ins, res))
    /\ last' = Observed(ins, res)

\* A statement returned normally.
Continue(next) == pc' = next /\ UNCHANGED <<pending, caught, exc>>

\* A statement raised: out of the script, into an except block, or into a
\* finally block with the error pending.
Fail(ins, kind) ==
    LET e == [kind |-> kind, line |-> pc] IN
    CASE ins.mode = "raise" ->
            /\ pc' = RAISED
            /\ exc' = e
            /\ pending' = NoErr
            /\ UNCHANGED caught
      [] ins.mode = "catch" ->
            /\ pc' = ins.err
            /\ caught' = Append(caught, e)
            /\ UNCHANGED <<pending, exc>>
      [] ins.mode = "finally" ->
            /\ pc' = ins.err
            /\ pending' = e
            /\ UNCHANGED <<caught, exc>>

\* Mutant: an element capture does not look whether its element exists.
OutcomesCaptureUnchecked(ins) ==
    IF browser = "closed" /\ ins.op \notin {"launch", "on"}
    THEN {"SessionClosed"}
    ELSE CASE ins.op \in {"launch", "new_page", "new_context"} -> {"ok", "LaunchError"}
           [] ins.op = "on" -> {"ok"}
           [] ins.op = "goto" -> {"ok", "TimeoutError"}
           [] ins.op \in {"click", "fill"} ->
                IF elem = "absent" THEN {"ElementNotFound"}
                ELSE IF elem = "hidden" THEN {"TimeoutError"} ELSE {"ok"}
           [] ins.op = "evaluate" -> {"ok", "EvaluationError"}
           [] ins.op \in {"count", "is_visible"} -> {"ok"}
           [] ins.op \in {"screenshot", "locator_screenshot"} -> {"ok", "IOError"}

\* Results the automation engine can give a statement.
Outcomes(ins) ==
    IF browser = "closed" /\ ins.op \notin {"launch", "on"}
    THEN {"SessionClosed"}
    ELSE CASE ins.op \in {"launch", "new_page", "new_context"} -> {"ok", "LaunchError"}
           [] ins.op = "on" -> {"ok"}
           [] ins.op = "goto" -> {"ok", "TimeoutError"}
           [] ins.op \in {"click", "fill"} ->
                IF elem = "absent" THEN {"ElementNotFound"}
                ELSE IF elem = "hidden" THEN {"TimeoutError"} ELSE {"ok"}
           [] ins.op = "evaluate" -> {"ok", "EvaluationError"}
           [] ins.op \in {"count", "is_visible"} -> {"ok"}
           [] ins.op = "screenshot" -> {"ok", "IOError"}
           [] ins.op = "locator_screenshot" ->
                IF elem = "absent" THEN {"ElementNotFound"} ELSE {"ok", "IOError"}

Finish(ins, r, next) ==
    /\ Logged(ins, r)
    /\ IF r = "ok" THEN Continue(next) ELSE Fail(ins, r)
    /\ elapsed' = 0
    /\ seen' = FALSE
    /\ PageMoves

\* p.chromium.launch(...)
Launch ==
    /\ Running /\ Cur.op = "launch"
    /\ \E r \in Outcomes(Cur) :
          /\ Finish(Cur, r, Cur.ok)
          /\ browser' = IF r = "ok" THEN "open" ELSE browser
    /\ UNCHANGED <<script, status, closeCalls, exit, files, pwStopped, diag>>

\* browser.new_page(), browser.new_context(...), context.new_page(), page.on(...)
SessionStep ==
    /\ Running /\ Cur.op \in {"new_page", "new_context", "on"}
    /\ \E r \in Outcomes(Cur) : Finish(Cur, r, Cur.ok)
    /\ UNCHANGED <<script, status, browser, closeCalls, exit, files, pwStopped, diag>>

\* page.goto, page.click, locator.click, locator.fill, page.evaluate,
\* locator.evaluate, locator.count
PageStep ==
    /\ Running /\ Cur.op \in {"goto", "click", "fill", "evaluate", "count"}
    /\ \E r \in Outcomes(Cur) : Finish(Cur, r, Cur.ok)
    /\ UNCHANGED <<script, status, browser, closeCalls, exit, files, pwStopped, diag>>

\* locator.is_visible(): False for a hidden element and for no element.
Query ==
    /\ Running /\ Cur.op = "is_visible"
    /\ \E r \in Outcomes(Cur) :
          Finish(Cur, r, IF elem = "visible" THEN Cur.ok ELSE Cur.alt)
    /\ UNCHANGED <<script, status, browser, closeCalls, exit, files, pwStopped, diag>>

\* page.screenshot(path=...), locator.screenshot(path=...)
Capture ==
    /\ Running /\ Cur.op \in CaptureOps
    /\ \E r \in Outcomes(Cur) :
          /\ Finish(Cur, r, Cur.ok)
          /\ files' = IF r = "ok" THEN files \cup {Cur.arg} ELSE files
    /\ UNCHANGED <<script, status, browser, closeCalls, exit, pwStopped, diag>>

\* A poll of a wait, before the timeout, finds the condition true.
WaitSatisfied ==
    /\ Running /\ Cur.op \in WaitOps
    /\ browser = "open"
    /\ ElapsedMs < Cur.tmo
    /\ CondHolds(Cur)
    /\ Logged(Cur, "ok")
    /\ Continue(Cur.ok)
    /\ elapsed' = 0
    /\ seen' = FALSE
    /\ PageMoves
    /\ UNCHANGED <<script, status, browser, closeCalls, exit, files, pwStopped, diag>>

\* A poll of a wait, before the timeout, finds the condition false.
WaitTick ==
    /\ Running /\ Cur.op \in WaitOps
    /\ browser = "open"
    /\ ElapsedMs < Cur.tmo
    /\ ~CondHolds(Cur)
    /\ elapsed' = elapsed + 1
    /\ seen' = (seen \/ CondHolds(Cur))
    /\ PageMoves
    /\ UNCHANGED <<script, pc, status, browser, closeCalls, pending, caught, exc,
                   exit, log, last, files, pwStopped, diag>>

\* Mutant: a wait gives up at a poll that finds its condition false.
WaitExpireEarly ==
    /\ Running /\ Cur.op \in WaitOps
    /\ browser # "open" \/ ElapsedMs >= Cur.tmo \/ ~CondHolds(Cur)
    /\ LET r == IF browser = "open" THEN "TimeoutError" ELSE "SessionClosed"
       IN  Logged(Cur, r) /\ Fail(Cur, r)
    /\ elapsed' = 0
    /\ seen' = FALSE
    /\ PageMoves
    /\ UNCHANGED <<script, status, browser, closeCalls, exit, files, pwStopped, diag>>

\* The timeout of a wait has elapsed (or the session is closed).
WaitExpire ==
    /\ Running /\ Cur.op \in WaitOps
    /\ browser # "open" \/ ElapsedMs >= Cur.tmo
    /\ LET r == IF browser = "open" THEN "TimeoutError" ELSE "SessionClosed"
       IN  Logged(Cur, r) /\ Fail(Cur, r)
    /\ elapsed' = 0
    /\ seen' = FALSE
    /\ PageMoves
    /\ UNCHANGED <<script, status, browser, closeCalls, exit, files, pwStopped, diag>>

\* page.wait_for_timeout(ms), time.sleep(s): time passes.
DelayTick ==
    /\ Running /\ Cur.op \in DelayOps
    /\ ElapsedMs < Cur.tmo
    /\ elapsed' = elapsed + 1
    /\ PageMoves
    /\ UNCHANGED <<script, pc, status, browser, closeCalls, pending, caught, exc,
                   exit, log, last, files, seen, pwStopped, diag>>

\* The delay is over.
DelayDone ==
    /\ Running /\ Cur.op \in DelayOps
    /\ ElapsedMs >= Cur.tmo
    /\ LET r == IF Cur.op = "wait_for_timeout" /\ browser = "closed"
                THEN "SessionClosed" ELSE "ok"
       IN  /\ Logged(Cur, r)
           /\ IF r = "ok" THEN Continue(Cur.ok) ELSE Fail(Cur, r)
    /\ elapsed' = 0
    /\ seen' = FALSE
    /\ PageMoves
    /\ UNCHANGED <<script, status, browser, closeCalls, exit, files, pwStopped, diag>>

\* browser.close().  In a finally block a pending error is re-raised after a
\* close that returned; an error raised by close replaces the pending one.
Close ==
    /\ Running /\ Cur.op = "close"
    /\ closeCalls' = closeCalls + 1
    /\ \E r \in {"ok", "CloseError"} :
          /\ Logged(Cur, r)
          /\ browser' = IF r = "ok" THEN "closed" ELSE browser
          /\ IF r # "ok" THEN Fail(Cur, r)
             ELSE IF pending # NoErr
                  THEN /\ pc' = RAISED
                       /\ exc' = pending
                       /\ pending' = NoErr
                       /\ UNCHANGED caught
                  ELSE Continue(Cur.ok)
    /\ elapsed' = 0
    /\ seen' = FALSE
    /\ PageMoves
    /\ UNCHANGED <<script, status, exit, files, pwStopped, diag>>

\* The page.on(kind, ...) of the script has run.
Registered(kind) ==
    \E i \in DOMAIN log :
        /\ log[i].op = "on"
        /\ log[i].res = "ok"
        /\ Prog(script)[log[i].line].arg = kind

\* Mutant: the callback keeps only the latest message.
DiagCallbackOverwrites(kind) ==
    /\ diag' = <<kind>>
    /\ UNCHANGED <<script, pc, status, browser, closeCalls, pending, caught, exc,
                   exit, log, last, files, elapsed, seen, elem, idle, pwStopped>>

\* lambda msg: print(f"Console: {msg.text}"), lambda err: print(f"Page Error: {err}")
DiagCallback(kind) ==
    /\ diag' = Append(diag, kind)
    /\ UNCHANGED <<script, pc, status, browser, closeCalls, pending, caught, exc,
                   exit, log, last, files, elapsed, seen, elem, idle, pwStopped>>

\* The page emits a console message or an uncaught error while a statement
\* of the script is in progress; the registered callback runs.
DiagEvent ==
    /\ Running
    /\ browser = "open"
    /\ Len(diag) < MaxEvents
    /\ \E kind \in {"console", "pageerror"} :
          Registered(kind) /\ DiagCallback(kind)

\* The with-block is left, by return or by an exception, and the process ends.
WithExit ==
    /\ status = "run"
    /\ pc \in {END, RAISED}
    /\ status' = "done"
    /\ pwStopped' = TRUE
    /\ exit' = IF pc = END THEN 0 ELSE 1
    /\ UNCHANGED <<script, pc, browser, closeCalls, pending, caught, exc, log,
                   last, files, elapsed, seen, elem, idle, diag>>

Next ==
    \/ Launch
    \/ SessionStep
    \/ PageStep
    \/ Query
    \/ Capture
    \/ WaitSatisfied
    \/ WaitTick
    \/ WaitExpire
    \/ DelayTick
    \/ DelayDone
    \/ Close
    \/ DiagEvent
    \/ WithExit

Spec == Init /\ [][Next]_vars

\* Time passes and the interpreter runs the next statement: no step waits for
\* anything but the clock.
LiveSpec == Init /\ [][Next]_vars /\ WF_vars(Next)

----------------------------------------------------------------------------
(* Properties.                                                              *)

Done == status = "done"

\* The session was opened: the browser was launched and its page created.
SessionOpened ==
    \E i \in DOMAIN log : log[i].op = "new_page" /\ log[i].res = "ok"

\* Steps of a scenario: navigate, wait, interact, evaluate, capture.
StepOps ==
    {"goto", "click", "fill", "evaluate", "count", "is_visible"}
        \cup WaitOps \cup DelayOps \cup CaptureOps

FailedAt(i) == log[i].op \in StepOps /\ log[i].res # "ok"

\* C1: once the session is open, every run ends with browser.close() called
\* exactly once, whatever the outcomes of its steps.
C1_ClosedExactlyOnce == (Done /\ SessionOpened) => closeCalls = 1

\* C2: after a step of a scenario has failed, nothing of that scenario runs
\* any more except one diagnostic capture made by the failure handler (and
\* the session close).
C2_FailureShortCircuits ==
    \A i \in DOMAIN log : FailedAt(i) =>
        LET later == {j \in DOMAIN log :
                        /\ j > i
                        /\ log[j].scen = log[i].scen
                        /\ log[j].op \in StepOps}
        IN  /\ \A j \in later : log[j].hnd /\ log[j].op \in CaptureOps
            /\ Cardinality(later) <= 1

\* C3: an error a script catches is re-raised unmodified: a run that caught an
\* error ends with that error propagating, never normally.
C3_CaughtIsReRaised ==
    (Done /\ caught # <<>>) => (exc = caught[1] /\ exit # 0)

\* C4: the exit status is zero exactly when every step completed.
C4_ExitStatusReflectsSteps ==
    Done => (exit = 0 <=> \A i \in DOMAIN log : log[i].res = "ok")

\* C5: in verify_stromkreis, when the risoOhne or kabel.typ input is absent
\* from the page, its fill step fails with ElementNotFound: the run does not
\* go on past the fill without an error.
C5_FillOfAbsentInputFails ==
    (/\ script = "stromkreis"
     /\ last.line \in {17, 32}
     /\ last.elem = "absent")
    => (pending # NoErr \/ exc # NoErr \/ caught # <<>>)

\* Lines of the waits and delays of a script.
WaitLines(s) == {l \in DOMAIN Prog(s) : Prog(s)[l].op \in WaitOps \cup DelayOps}

\* A wait or delay that returned gave success or TimeoutError, within one
\* poll of its timeout, and no wait statement is ever run a second time.
C6_WaitReturnsBounded ==
    /\ last.op \in WaitOps \cup DelayOps =>
          /\ last.res \in {"ok", "TimeoutError"}
          /\ last.el < last.tmo + TickMs
    /\ \A i, j \in DOMAIN log :
          (i < j /\ log[i].op \in WaitOps \cup DelayOps) => log[i].line # log[j].line

\* C6: every wait (wait_for_selector, locator.wait_for, wait_for_load_state,
\* wait_for_timeout, time.sleep) the run reaches eventually returns, with
\* success or TimeoutError after a finite timeout; none blocks or is retried
\* for ever, whatever the page does.
C6_EveryWaitTerminates ==
    /\ []C6_WaitReturnsBounded
    /\ \A s \in Scripts : \A l \in WaitLines(s) :
          []<>(~(script = s /\ pc = l))

\* C6 witness: a wait ran out its timeout and returned TimeoutError.
C6_Witness ==
    /\ last.op \in WaitOps
    /\ last.res = "TimeoutError"
    /\ last.el >= last.tmo
    /\ pc # last.line

\* A wait that returned success saw its condition true at a poll made before
\* the timeout; one that returned TimeoutError ran for the timeout at least
\* and saw its condition true at none of its polls.
C7_WaitResultSound ==
    last.op \in WaitOps =>
        /\ last.res = "ok" => (last.seen /\ last.el < last.tmo)
        /\ last.res = "TimeoutError" => (~last.seen /\ last.el >= last.tmo)

\* A poll before the timeout that finds the condition true ends the wait
\* with success (a diagnostic callback may run first).
C7_PollTrueReturns ==
    (/\ Running /\ Cur.op \in WaitOps
     /\ ElapsedMs < Cur.tmo
     /\ CondHolds(Cur))
    => \/ last'.line = pc /\ last'.res = "ok" /\ pc' = Cur.ok
       \/ diag' # diag /\ pc' = pc

\* C7: a wait with condition c and timeout T returns success only if c was
\* seen true at a poll strictly before T elapsed, does return success when c
\* is true at such a poll, and raises TimeoutError only when the elapsed time
\* is >= T and c was never seen true.
C7_WaitSemantics == []C7_WaitResultSound /\ [][C7_PollTrueReturns]_vars

\* C7 witness: a wait returned success at a later poll than its first.
C7_Witness ==
    /\ last.op \in WaitOps
    /\ last.res = "ok"
    /\ last.el > 0
    /\ last.el < last.tmo

\* C8: an error raised by browser.close() never masks the failure of a step:
\* when a step failed and the close that follows fails too, the error the
\* run ends with is the step's.
C8_CloseNeverMasks ==
    \A i, j \in DOMAIN log :
        (/\ Done
         /\ i < j
         /\ FailedAt(i)
         /\ log[j].op = "close" /\ log[j].res # "ok")
        => exc = [kind |-> log[i].res, line |-> log[i].line]

\* C9: a capture of an element whose selector matches nothing fails with
\* ElementNotFound and writes no file at its path; a full-page capture never
\* fails with ElementNotFound.
C9_CaptureOfAbsentElement ==
    /\ (last.op = "locator_screenshot" /\ last.elem = "absent") =>
          (last.res = "ElementNotFound" /\ last.arg \notin files)
    /\ last.op = "screenshot" => last.res # "ElementNotFound"
    /\ \A i \in DOMAIN log :
          log[i].op = "screenshot" => log[i].res # "ElementNotFound"

\* C9 witness: verify_drag_drop captured the drop zone after it had left the
\* page.
C9_Witness ==
    /\ script = "drag_drop"
    /\ last.op = "locator_screenshot"
    /\ last.elem = "absent"
    /\ last.res = "ElementNotFound"
    /\ \E i \in DOMAIN log : log[i].line = 31 /\ log[i].res = "ok"

\* C10: no script runs a statement against a session it has closed, and a
\* statement that did would fail with SessionClosed.
C10_NoStepAfterClose ==
    \A i \in DOMAIN log :
        /\ log[i].op \in StepOps \cup {"new_page", "new_context", "on"} =>
              log[i].sess = "open"
        /\ log[i].sess = "closed" => log[i].res = "SessionClosed"
        /\ (log[i].op = "close" /\ log[i].res = "ok") => i = Len(log)

\* C10 witness: a run that closed its browser after its last step and ended.
C10_Witness ==
    /\ Done
    /\ browser = "closed"
    /\ exit = 0
    /\ log[Len(log)].op = "close"
    /\ \E i \in DOMAIN log : log[i].op \in CaptureOps /\ log[i].res = "ok"

\* The session state the main sequence observes.
SessionState == <<script, pc, status, browser, closeCalls, pending, caught, exc,
                  exit, log, last, files, elapsed, seen, pwStopped>>

\* A step that prints a diagnostic leaves the session state as it was, and
\* the diagnostics printed so far stay as they are, in their order.
C12_CallbackStep ==
    /\ diag' # diag => UNCHANGED SessionState
    /\ Len(diag') >= Len(diag)
    /\ SubSeq(diag', 1, Len(diag)) = diag

\* C12: the console and pageerror callbacks may run at any point of the main
\* sequence; under every interleaving they only append to the diagnostic
\* output: they change nothing of the session state (open/closed, page, step
\* position), and what was recorded is never modified or reordered.
C12_CallbacksOnlyAppend == [][C12_CallbackStep]_vars

\* C12 witness: two diagnostics of different kinds were printed while
\* verify_drag_drop was in its visibility wait, the first before the wait.
C12_Witness ==
    /\ script = "drag_drop"
    /\ diag = <<"pageerror", "console">>
    /\ pc = 31
    /\ elapsed > 0
    /\ status = "run"

\* Statements that open the session: the browser, its context, its page.
OpenOps == {"launch", "new_page", "new_context"}

\* C13: opening a session never partially succeeds: when the launch, or the
\* creation of the context or page that completes the session, fails, no
\* browser is left open for the caller to clean up.
C13_NoPartialSession ==
    \A i \in DOMAIN log :
        (log[i].op \in OpenOps /\ log[i].res # "ok") => browser # "open"

\* C14: in verify_messgeraet the wait for the open modal (line 38) is bounded
\* by 5 s: it succeeds only before 5 s have elapsed, and otherwise raises a
\* TimeoutError for the modal selector once 5 s have elapsed.
C14_ModalWaitBoundedBy5s ==
    (script = "messgeraet" /\ last.line = 38) =>
        /\ last.res = "ok" => last.el < 5000
        /\ last.res # "ok" =>
              /\ last.res = "TimeoutError"
              /\ last.arg = "#messgeraetFormModal.modal.is-open"
              /\ last.el < 5000 + TickMs

\* Lines of the statements of the log.
LinesRun == {log[i].line : i \in DOMAIN log}

\* The statement at a line ran and returned normally.
RanOk(line) == \E i \in DOMAIN log : log[i].line = line /\ log[i].res = "ok"

\* The statement at a line ran and raised.
RanFailed(line) == \E i \in DOMAIN log : log[i].line = line /\ log[i].res # "ok"

\* Captures that have been attempted.
CapturesRun == {i \in DOMAIN log : log[i].op \in CaptureOps}

\* C15: in verify_drag_drop.run, when the 5000 ms visibility wait on
\* #file-drop-zone fails, exactly one capture is made, the full-page
\* verification/debug_fail.png, and none of the later steps runs: no
\* normal_state.png or drag_over_state.png capture, no dragenter dispatch, no
\* evaluate of the drag-over class or of tabindex.
C15_FailedWaitCapturesAndReturns ==
    (script = "drag_drop" /\ RanFailed(31)) =>
        /\ LinesRun \cap {38, 41, 48, 51, 55} = {}
        /\ \A i \in CapturesRun : log[i].line = 34 /\ log[i].op = "screenshot"
        /\ Cardinality(CapturesRun) <= 1
        /\ files \subseteq {"verification/debug_fail.png"}
        /\ pc \in {34, END, RAISED}
        /\ pc # 34 => Cardinality(CapturesRun) = 1

\* C15 witness: the wait timed out, debug_fail.png was written and the run
\* returned.
C15_Witness ==
    /\ script = "drag_drop"
    /\ Done
    /\ \E i \in DOMAIN log :
          log[i].line = 31 /\ log[i].res = "TimeoutError"
    /\ files = {"verification/debug_fail.png"}
    /\ exit = 0

\* The first scenario of the verify_stromkreis script is over: it returned,
\* or it raised and the except block made its error.png capture.
FirstScenarioOver ==
    \/ RanOk(39)
    \/ (\E l \in DOMAIN StromkreisBody : RanFailed(l)) /\ RanOk(81)

ToastWaitsOver == RanFailed(26) \/ RanOk(27) \/ RanFailed(27)

NothingRaised == \A i \in DOMAIN log : log[i].res = "ok"

\* C18: in verify_stromkreis a fill is issued on an input only when the
\* is_visible check made immediately before, on the same locator, returned
\* true; the risoMit input is never filled; and when no step raises, the final
\* capture verification/verification.png is taken whatever the three
\* visibility checks returned.
C18_FillOnlyWhenVisible ==
    script = "stromkreis" =>
        /\ pc \in {19, 34} =>
              /\ last.line = (IF pc = 19 THEN 17 ELSE 32)
              /\ last.op = "is_visible"
              /\ last.arg = Prog(script)[pc].arg
              /\ last.res = "ok"
              /\ last.elem = "visible"
        /\ \A i \in DOMAIN log : log[i].op = "fill" =>
              /\ log[i].line \in {19, 34}
              /\ Prog(script)[log[i].line].arg # "risoMit"
              /\ log[i-1].op = "is_visible" /\ log[i-1].res = "ok"
              /\ log[i-1].line = (IF log[i].line = 19 THEN 17 ELSE 32)
        /\ (NothingRaised /\ 17 \in LinesRun) =>
              \/ pc \in {19, 25, 32, 34, 39}
              \/ RanOk(39) /\ "verification/verification.png" \in files

\* C18 witness: risoOhne was not visible and was not filled, kabel.typ was
\* visible and was filled, and the capture was taken.
C18_Witness ==
    /\ script = "stromkreis"
    /\ NothingRaised
    /\ 19 \notin LinesRun
    /\ RanOk(34)
    /\ RanOk(39)
    /\ pc = 83

\* The selector waits of a script that stand before a given line.
WaitsBefore(s, line) ==
    {l \in DOMAIN Prog(s) : Prog(s)[l].op \in WaitOps /\ l < line}

\* C19: in verify_messgeraet and verify_settings a capture is attempted only
\* after every wait standing before it in the script has returned success
\* (messgeraet_list.png after the sidebar and module waits, messgeraet_modal.png
\* after the modal-open wait as well, settings.png after both visibility
\* waits), and once a wait has failed no capture is attempted and no file is
\* written afterwards.
C19_CaptureOnlyAfterWaits ==
    script \in {"messgeraet", "settings"} =>
        /\ \A i \in CapturesRun : \A l \in WaitsBefore(script, log[i].line) :
              \E j \in 1..(i-1) : log[j].line = l /\ log[j].res = "ok"
        /\ \A i \in DOMAIN log : (log[i].op \in WaitOps /\ log[i].res # "ok") =>
              \A j \in CapturesRun : j < i
        /\ "verification/messgeraet_list.png" \in files => RanOk(13) /\ RanOk(25)
        /\ "verification/messgeraet_modal.png" \in files =>
              RanOk(13) /\ RanOk(25) /\ RanOk(38)
        /\ "verification/settings.png" \in files => RanOk(15) /\ RanOk(18)
        /\ (script = "messgeraet" /\ pc \in {31, 42}) => RanOk(13) /\ RanOk(25)
        /\ (script = "messgeraet" /\ pc = 42) => RanOk(38)
        /\ (script = "settings" /\ pc = 21) => RanOk(15) /\ RanOk(18)

\* C19 witness: verify_messgeraet wrote the list capture, then its modal-open
\* wait failed, and the run ended without the modal capture.
C19_Witness ==
    /\ script = "messgeraet"
    /\ "verification/messgeraet_list.png" \in files
    /\ RanFailed(38)
    /\ Done
    /\ "verification/messgeraet_modal.png" \notin files

====
